---- MODULE Spec2Model ----
(***************************************************************************)
(* Model of packages/svelte/src/internal/client/dom/operations.js:         *)
(* the environment binding (init_operations), the tree walker (child,      *)
(* first_child, sibling) over a live DOM tree with the hydration cursor,   *)
(* and the deferred-append predicate (should_defer_append).                *)
(***************************************************************************)
EXTENDS Integers, Sequences, FiniteSets, TLC

\* ---------------------------------------------------------------- bounds
\* number of nodes of the tree the walk starts on (root included)
MaxInitNodes == 3
\* number of node handles the document can hand out (initial + created)
MaxNodes == 4
\* largest count argument of sibling()
MaxCount == 2
\* highest bit an effect's flag set can have set
MaxFlagBit == 16

\* ----------------------------------------------------------- JS values
\* the JS value null (a node handle is a positive integer)
Null == 0
\* the JS value undefined (an unassigned var, a missing property)
Undefined == -1
\* undefined, for the module variables that hold host objects
Unset == "undefined"
\* Node.TEXT_NODE, imported from #client/constants
TEXT_NODE == 3
\* the "already ran once" bit of an effect's flags (1 << 15 in #client/constants)
EFFECT_RAN == 32768

Nodes == 1..MaxNodes
Root == 1

VARIABLES
    tree,                \* the live document: kind, data and childNodes of every node handle
    hydrating,           \* hydration.js: export let hydrating
    hydrate_node,        \* hydration.js: export let hydrate_node (the cursor)
    call,                \* the last call: operation, arguments, outcome, state at entry
    trail,               \* nodes returned by the current run of hydrating sibling(_, 1, false) calls
    dollar_window,       \* export var $window
    dollar_document,     \* export var $document
    is_firefox,          \* export var is_firefox
    first_child_getter,  \* var first_child_getter
    next_sibling_getter, \* var next_sibling_getter
    element_prototype,   \* own properties of Element.prototype the module writes
    text_prototype,      \* own properties of Text.prototype the module writes
    host,                \* the host: extensibility of the two prototypes, DEV, array warnings installed
    async_mode_flag,     \* flags/index.js: export let async_mode_flag
    active_effect,       \* runtime.js: export let active_effect ([ref |-> Null] or [ref |-> 1, f |-> flags])
    attributes           \* the attribute list of the element set_attribute() is applied to

walker_vars == <<tree, hydrating, hydrate_node, trail>>
env_vars == <<dollar_window, dollar_document, is_firefox, first_child_getter,
              next_sibling_getter, element_prototype, text_prototype, host>>
defer_vars == <<async_mode_flag, active_effect>>
attr_vars == <<attributes>>
vars == <<tree, hydrating, hydrate_node, call, trail, dollar_window, dollar_document,
          is_firefox, first_child_getter, next_sibling_getter, element_prototype,
          text_prototype, host, async_mode_flag, active_effect, attributes>>

\* ------------------------------------------------------- the DOM tree
\* kind[n] is "free" for a handle the document has not handed out yet.
Allocated(t) == {n \in Nodes : t.kind[n] # "free"}

InSeq(x, s) == \E i \in 1..Len(s) : s[i] = x

IndexOf(s, x) == CHOOSE i \in 1..Len(s) : s[i] = x

\* Node.parentNode
Parent(t, n) ==
    IF \E p \in Nodes : InSeq(n, t.childNodes[p])
    THEN CHOOSE p \in Nodes : InSeq(n, t.childNodes[p])
    ELSE Null

\* Node.nodeType as the walker reads it (`x?.nodeType` of null is undefined)
nodeType(t, n) ==
    IF n = Null \/ n = Undefined THEN Undefined
    ELSE IF t.kind[n] = "text" THEN TEXT_NODE
    ELSE IF t.kind[n] = "element" THEN 1
    ELSE IF t.kind[n] = "comment" THEN 8
    ELSE 11

\* nodes attached to the live tree: the root and its descendants
RECURSIVE Descendants(_, _)
Descendants(t, n) ==
    LET kids == {t.childNodes[n][i] : i \in 1..Len(t.childNodes[n])}
    IN  {n} \cup UNION {Descendants(t, k) : k \in kids}

Live(t) == Descendants(t, Root)

InsertAt(s, i, x) == SubSeq(s, 1, i - 1) \o <<x>> \o SubSeq(s, i, Len(s))

\* document.createTextNode(value) with value = '': the next free handle
\* becomes a detached empty text node (node = Null: no handle left).
create_text(t) ==
    LET free == {n \in Nodes : t.kind[n] = "free"}
        id == IF free = {} THEN Null ELSE CHOOSE n \in free : \A m \in free : n <= m
    IN  IF id = Null THEN [tree |-> t, node |-> Null]
        ELSE [tree |-> [t EXCEPT !.kind[id] = "text", !.data[id] = ""], node |-> id]

\* first_child_getter.call(node): the native getter throws a TypeError on a
\* receiver that is not a Node
get_first_child(t, node) ==
    IF node = Null \/ node = Undefined THEN [threw |-> "TypeError", val |-> Undefined]
    ELSE IF t.childNodes[node] = <<>> THEN [threw |-> "none", val |-> Null]
    ELSE [threw |-> "none", val |-> t.childNodes[node][1]]

\* next_sibling_getter.call(node)
get_next_sibling(t, node) ==
    IF node = Null \/ node = Undefined THEN [threw |-> "TypeError", val |-> Undefined]
    ELSE LET p == Parent(t, node) IN
         IF p = Null THEN [threw |-> "none", val |-> Null]
         ELSE LET s == t.childNodes[p]
                  i == IndexOf(s, node)
              IN  [threw |-> "none", val |-> IF i = Len(s) THEN Null ELSE s[i + 1]]

\* parent.appendChild(n) for a detached n: only an element or a fragment
\* can have children
appendChild(t, parent, n) ==
    IF t.kind[parent] \notin {"element", "fragment"}
    THEN [threw |-> "HierarchyRequestError", tree |-> t]
    ELSE [threw |-> "none",
          tree |-> [t EXCEPT !.childNodes[parent] = Append(@, n)]]

\* ref.before(n) for a detached n: ChildNode.before is not defined on a
\* DocumentFragment, and does nothing when ref has no parent
before(t, ref, n) ==
    IF t.kind[ref] = "fragment" THEN [threw |-> "TypeError", tree |-> t]
    ELSE LET p == Parent(t, ref) IN
         IF p = Null THEN [threw |-> "none", tree |-> t]
         ELSE [threw |-> "none",
               tree |-> [t EXCEPT !.childNodes[p] = InsertAt(@, IndexOf(@, ref), n)]]

\* ref.after(n) for a detached n
after(t, ref, n) ==
    IF t.kind[ref] = "fragment" THEN [threw |-> "TypeError", tree |-> t]
    ELSE LET p == Parent(t, ref) IN
         IF p = Null THEN [threw |-> "none", tree |-> t]
         ELSE [threw |-> "none",
               tree |-> [t EXCEPT !.childNodes[p] = InsertAt(@, IndexOf(@, ref) + 1, n)]]

\* hydration.js set_hydrate_node(node): a plain setter, no validation
set_hydrate_node(node) == node

\* outcome of a walker call: the tree and cursor it leaves, what it returned
\* or threw, how often it wrote the cursor, and whether it needed a handle
\* the bounded document could not hand out
Returned(t, hn, ret, writes) ==
    [tree |-> t, hydrate_node |-> hn, ret |-> ret, threw |-> "none",
     writes |-> writes, oom |-> FALSE]

Thrown(t, hn, error) ==
    [tree |-> t, hydrate_node |-> hn, ret |-> Undefined, threw |-> error,
     writes |-> 0, oom |-> FALSE]

Exhausted(t, hn) ==
    [tree |-> t, hydrate_node |-> hn, ret |-> Undefined, threw |-> "none",
     writes |-> 0, oom |-> TRUE]

\* ---------------------------------------------------- the tree walker
\* child() inserting the synthesized text node after the mismatched child
child_text_after_child(t, hn, hyd, node, is_text) ==
    IF ~hyd THEN
        LET g == get_first_child(t, node) IN
        IF g.threw # "none" THEN Thrown(t, hn, g.threw) ELSE Returned(t, hn, g.val, 0)
    ELSE
        LET g == get_first_child(t, hn) IN
        IF g.threw # "none" THEN Thrown(t, hn, g.threw)
        ELSE IF g.val = Null THEN
            LET c == create_text(t) IN
            IF c.node = Null THEN Exhausted(t, hn)
            ELSE LET a == appendChild(c.tree, hn, c.node) IN
                 IF a.threw # "none" THEN Thrown(a.tree, hn, a.threw)
                 ELSE Returned(a.tree, set_hydrate_node(c.node), c.node, 1)
        ELSE IF is_text /\ nodeType(t, g.val) # TEXT_NODE THEN
            LET c == create_text(t) IN
            IF c.node = Null THEN Exhausted(t, hn)
            ELSE LET b == after(c.tree, g.val, c.node) IN
                 IF b.threw # "none" THEN Thrown(b.tree, hn, b.threw)
                 ELSE Returned(b.tree, set_hydrate_node(c.node), c.node, 1)
        ELSE Returned(t, set_hydrate_node(g.val), g.val, 1)

\* child() creating the text node for an empty parent without appending it
child_detached_text(t, hn, hyd, node, is_text) ==
    IF ~hyd THEN
        LET g == get_first_child(t, node) IN
        IF g.threw # "none" THEN Thrown(t, hn, g.threw) ELSE Returned(t, hn, g.val, 0)
    ELSE
        LET g == get_first_child(t, hn) IN
        IF g.threw # "none" THEN Thrown(t, hn, g.threw)
        ELSE IF g.val = Null THEN
            LET c == create_text(t) IN
            IF c.node = Null THEN Exhausted(t, hn)
            ELSE Returned(c.tree, set_hydrate_node(c.node), c.node, 1)
        ELSE IF is_text /\ nodeType(t, g.val) # TEXT_NODE THEN
            LET c == create_text(t) IN
            IF c.node = Null THEN Exhausted(t, hn)
            ELSE LET b == before(c.tree, g.val, c.node) IN
                 IF b.threw # "none" THEN Thrown(b.tree, hn, b.threw)
                 ELSE Returned(b.tree, set_hydrate_node(c.node), c.node, 1)
        ELSE Returned(t, set_hydrate_node(g.val), g.val, 1)

\* child() descending to the last child of the cursor when hydrating
child_last_child(t, hn, hyd, node, is_text) ==
    IF ~hyd THEN
        LET g == get_first_child(t, node) IN
        IF g.threw # "none" THEN Thrown(t, hn, g.threw) ELSE Returned(t, hn, g.val, 0)
    ELSE IF hn = Null THEN Thrown(t, hn, "TypeError")
    ELSE IF t.childNodes[hn] = <<>> THEN
        LET c == create_text(t) IN
        IF c.node = Null THEN Exhausted(t, hn)
        ELSE LET a == appendChild(c.tree, hn, c.node) IN
             IF a.threw # "none" THEN Thrown(a.tree, hn, a.threw)
             ELSE Returned(a.tree, set_hydrate_node(c.node), c.node, 1)
    ELSE LET last == t.childNodes[hn][Len(t.childNodes[hn])] IN
        IF is_text /\ nodeType(t, last) # TEXT_NODE THEN
            LET c == create_text(t) IN
            IF c.node = Null THEN Exhausted(t, hn)
            ELSE LET b == before(c.tree, last, c.node) IN
                 IF b.threw # "none" THEN Thrown(b.tree, hn, b.threw)
                 ELSE Returned(b.tree, set_hydrate_node(c.node), c.node, 1)
        ELSE Returned(t, set_hydrate_node(last), last, 1)

\* child() whose repair branch lacks `return text` and goes on to
\* `set_hydrate_node(child); return child`
child_repair_falls_through(t, hn, hyd, node, is_text) ==
    IF ~hyd THEN
        LET g == get_first_child(t, node) IN
        IF g.threw # "none" THEN Thrown(t, hn, g.threw) ELSE Returned(t, hn, g.val, 0)
    ELSE
        LET g == get_first_child(t, hn) IN
        IF g.threw # "none" THEN Thrown(t, hn, g.threw)
        ELSE IF g.val = Null THEN
            LET c == create_text(t) IN
            IF c.node = Null THEN Exhausted(t, hn)
            ELSE LET a == appendChild(c.tree, hn, c.node) IN
                 IF a.threw # "none" THEN Thrown(a.tree, hn, a.threw)
                 ELSE Returned(a.tree, set_hydrate_node(c.node), c.node, 1)
        ELSE IF is_text /\ nodeType(t, g.val) # TEXT_NODE THEN
            LET c == create_text(t) IN
            IF c.node = Null THEN Exhausted(t, hn)
            ELSE LET b == before(c.tree, g.val, c.node) IN
                 IF b.threw # "none" THEN Thrown(b.tree, hn, b.threw)
                 ELSE Returned(b.tree, set_hydrate_node(g.val), g.val, 2)
        ELSE Returned(t, set_hydrate_node(g.val), g.val, 1)

\* child() reading the first child of its node argument when hydrating
child_from_node(t, hn, hyd, node, is_text) ==
    IF ~hyd THEN
        LET g == get_first_child(t, node) IN
        IF g.threw # "none" THEN Thrown(t, hn, g.threw) ELSE Returned(t, hn, g.val, 0)
    ELSE
        LET g == get_first_child(t, node) IN
        IF g.threw # "none" THEN Thrown(t, hn, g.threw)
        ELSE IF g.val = Null THEN
            LET c == create_text(t) IN
            IF c.node = Null THEN Exhausted(t, hn)
            ELSE LET a == appendChild(c.tree, node, c.node) IN
                 IF a.threw # "none" THEN Thrown(a.tree, hn, a.threw)
                 ELSE Returned(a.tree, set_hydrate_node(c.node), c.node, 1)
        ELSE IF is_text /\ nodeType(t, g.val) # TEXT_NODE THEN
            LET c == create_text(t) IN
            IF c.node = Null THEN Exhausted(t, hn)
            ELSE LET b == before(c.tree, g.val, c.node) IN
                 IF b.threw # "none" THEN Thrown(b.tree, hn, b.threw)
                 ELSE Returned(b.tree, set_hydrate_node(c.node), c.node, 1)
        ELSE Returned(t, set_hydrate_node(g.val), g.val, 1)

child(t, hn, hyd, node, is_text) ==
    IF ~hyd THEN
        LET g == get_first_child(t, node) IN
        IF g.threw # "none" THEN Thrown(t, hn, g.threw) ELSE Returned(t, hn, g.val, 0)
    ELSE
        LET g == get_first_child(t, hn) IN
        IF g.threw # "none" THEN Thrown(t, hn, g.threw)
        ELSE IF g.val = Null THEN
            LET c == create_text(t) IN
            IF c.node = Null THEN Exhausted(t, hn)
            ELSE LET a == appendChild(c.tree, hn, c.node) IN
                 IF a.threw # "none" THEN Thrown(a.tree, hn, a.threw)
                 ELSE Returned(a.tree, set_hydrate_node(c.node), c.node, 1)
        ELSE IF is_text /\ nodeType(t, g.val) # TEXT_NODE THEN
            LET c == create_text(t) IN
            IF c.node = Null THEN Exhausted(t, hn)
            ELSE LET b == before(c.tree, g.val, c.node) IN
                 IF b.threw # "none" THEN Thrown(b.tree, hn, b.threw)
                 ELSE Returned(b.tree, set_hydrate_node(c.node), c.node, 1)
        ELSE Returned(t, set_hydrate_node(g.val), g.val, 1)

\* first_child() skipping a leading comment whatever its data
first_child_skips_any_comment(t, hn, hyd, fragment, is_text) ==
    IF ~hyd THEN
        LET g == get_first_child(t, fragment) IN
        IF g.threw # "none" THEN Thrown(t, hn, g.threw)
        ELSE IF g.val # Null /\ t.kind[g.val] = "comment" THEN
            LET s == get_next_sibling(t, g.val) IN
            IF s.threw # "none" THEN Thrown(t, hn, s.threw) ELSE Returned(t, hn, s.val, 0)
        ELSE Returned(t, hn, g.val, 0)
    ELSE IF is_text /\ nodeType(t, hn) # TEXT_NODE THEN
        LET c == create_text(t) IN
        IF c.node = Null THEN Exhausted(t, hn)
        ELSE LET b == IF hn = Null THEN [threw |-> "none", tree |-> c.tree]
                      ELSE before(c.tree, hn, c.node) IN
             IF b.threw # "none" THEN Thrown(b.tree, hn, b.threw)
             ELSE Returned(b.tree, set_hydrate_node(c.node), c.node, 1)
    ELSE Returned(t, hn, hn, 0)

\* first_child() synthesizing a text node whenever is_text is set, without
\* looking at the cursor's node type
first_child_creates_always(t, hn, hyd, fragment, is_text) ==
    IF ~hyd THEN
        LET g == get_first_child(t, fragment) IN
        IF g.threw # "none" THEN Thrown(t, hn, g.threw)
        ELSE IF g.val # Null /\ t.kind[g.val] = "comment" /\ t.data[g.val] = "" THEN
            LET s == get_next_sibling(t, g.val) IN
            IF s.threw # "none" THEN Thrown(t, hn, s.threw) ELSE Returned(t, hn, s.val, 0)
        ELSE Returned(t, hn, g.val, 0)
    ELSE IF is_text THEN
        LET c == create_text(t) IN
        IF c.node = Null THEN Exhausted(t, hn)
        ELSE LET b == IF hn = Null THEN [threw |-> "none", tree |-> c.tree]
                      ELSE before(c.tree, hn, c.node) IN
             IF b.threw # "none" THEN Thrown(b.tree, hn, b.threw)
             ELSE Returned(b.tree, set_hydrate_node(c.node), c.node, 1)
    ELSE Returned(t, hn, hn, 0)

first_child(t, hn, hyd, fragment, is_text) ==
    IF ~hyd THEN
        LET g == get_first_child(t, fragment) IN
        IF g.threw # "none" THEN Thrown(t, hn, g.threw)
        ELSE IF g.val # Null /\ t.kind[g.val] = "comment" /\ t.data[g.val] = "" THEN
            LET s == get_next_sibling(t, g.val) IN
            IF s.threw # "none" THEN Thrown(t, hn, s.threw) ELSE Returned(t, hn, s.val, 0)
        ELSE Returned(t, hn, g.val, 0)
    ELSE IF is_text /\ nodeType(t, hn) # TEXT_NODE THEN
        LET c == create_text(t) IN
        IF c.node = Null THEN Exhausted(t, hn)
        ELSE LET b == IF hn = Null THEN [threw |-> "none", tree |-> c.tree]
                      ELSE before(c.tree, hn, c.node) IN
             IF b.threw # "none" THEN Thrown(b.tree, hn, b.threw)
             ELSE Returned(b.tree, set_hydrate_node(c.node), c.node, 1)
    ELSE Returned(t, hn, hn, 0)

\* the loop `while (count--) { last_sibling = next_sibling; next_sibling = get_next_sibling(next_sibling) }`
RECURSIVE sibling_loop(_, _, _, _)
sibling_loop(t, next_sibling, last_sibling, count) ==
    IF count = 0
    THEN [threw |-> "none", next_sibling |-> next_sibling, last_sibling |-> last_sibling]
    ELSE LET g == get_next_sibling(t, next_sibling) IN
         IF g.threw # "none"
         THEN [threw |-> g.threw, next_sibling |-> next_sibling, last_sibling |-> next_sibling]
         ELSE sibling_loop(t, g.val, next_sibling, count - 1)

\* sibling() without the early return of the non-hydrating mode
sibling_no_mode_check(t, hn, hyd, node, count, is_text) ==
    LET w == sibling_loop(t, IF hyd THEN hn ELSE node, Undefined, count) IN
    IF w.threw # "none" THEN Thrown(t, hn, w.threw)
    ELSE IF is_text /\ nodeType(t, w.next_sibling) # TEXT_NODE THEN
        LET c == create_text(t) IN
        IF c.node = Null THEN Exhausted(t, hn)
        ELSE LET i == IF w.next_sibling = Null
                      THEN IF w.last_sibling = Undefined \/ w.last_sibling = Null
                           THEN [threw |-> "none", tree |-> c.tree]
                           ELSE after(c.tree, w.last_sibling, c.node)
                      ELSE before(c.tree, w.next_sibling, c.node) IN
             IF i.threw # "none" THEN Thrown(i.tree, hn, i.threw)
             ELSE Returned(i.tree, set_hydrate_node(c.node), c.node, 1)
    ELSE Returned(t, set_hydrate_node(w.next_sibling), w.next_sibling, 1)

\* sibling() hopping from its node argument in both modes
sibling_from_node(t, hn, hyd, node, count, is_text) ==
    LET w == sibling_loop(t, node, Undefined, count) IN
    IF w.threw # "none" THEN Thrown(t, hn, w.threw)
    ELSE IF ~hyd THEN Returned(t, hn, w.next_sibling, 0)
    ELSE IF is_text /\ nodeType(t, w.next_sibling) # TEXT_NODE THEN
        LET c == create_text(t) IN
        IF c.node = Null THEN Exhausted(t, hn)
        ELSE LET i == IF w.next_sibling = Null
                      THEN IF w.last_sibling = Undefined \/ w.last_sibling = Null
                           THEN [threw |-> "none", tree |-> c.tree]
                           ELSE after(c.tree, w.last_sibling, c.node)
                      ELSE before(c.tree, w.next_sibling, c.node) IN
             IF i.threw # "none" THEN Thrown(i.tree, hn, i.threw)
             ELSE Returned(i.tree, set_hydrate_node(c.node), c.node, 1)
    ELSE Returned(t, set_hydrate_node(w.next_sibling), w.next_sibling, 1)

\* sibling() returning the landing node without moving the cursor to it
sibling_no_cursor_update(t, hn, hyd, node, count, is_text) ==
    LET w == sibling_loop(t, IF hyd THEN hn ELSE node, Undefined, count) IN
    IF w.threw # "none" THEN Thrown(t, hn, w.threw)
    ELSE IF ~hyd THEN Returned(t, hn, w.next_sibling, 0)
    ELSE IF is_text /\ nodeType(t, w.next_sibling) # TEXT_NODE THEN
        LET c == create_text(t) IN
        IF c.node = Null THEN Exhausted(t, hn)
        ELSE LET i == IF w.next_sibling = Null
                      THEN IF w.last_sibling = Undefined \/ w.last_sibling = Null
                           THEN [threw |-> "none", tree |-> c.tree]
                           ELSE after(c.tree, w.last_sibling, c.node)
                      ELSE before(c.tree, w.next_sibling, c.node) IN
             IF i.threw # "none" THEN Thrown(i.tree, hn, i.threw)
             ELSE Returned(i.tree, set_hydrate_node(c.node), c.node, 1)
    ELSE Returned(t, hn, w.next_sibling, 0)

\* sibling() hopping once more than count (`while (count-- >= 0)`)
sibling_extra_hop(t, hn, hyd, node, count, is_text) ==
    LET w == sibling_loop(t, IF hyd THEN hn ELSE node, Undefined, count + 1) IN
    IF w.threw # "none" THEN Thrown(t, hn, w.threw)
    ELSE IF ~hyd THEN Returned(t, hn, w.next_sibling, 0)
    ELSE IF is_text /\ nodeType(t, w.next_sibling) # TEXT_NODE THEN
        LET c == create_text(t) IN
        IF c.node = Null THEN Exhausted(t, hn)
        ELSE LET i == IF w.next_sibling = Null
                      THEN IF w.last_sibling = Undefined \/ w.last_sibling = Null
                           THEN [threw |-> "none", tree |-> c.tree]
                           ELSE after(c.tree, w.last_sibling, c.node)
                      ELSE before(c.tree, w.next_sibling, c.node) IN
             IF i.threw # "none" THEN Thrown(i.tree, hn, i.threw)
             ELSE Returned(i.tree, set_hydrate_node(c.node), c.node, 1)
    ELSE Returned(t, set_hydrate_node(w.next_sibling), w.next_sibling, 1)

sibling(t, hn, hyd, node, count, is_text) ==
    LET w == sibling_loop(t, IF hyd THEN hn ELSE node, Undefined, count) IN
    IF w.threw # "none" THEN Thrown(t, hn, w.threw)
    ELSE IF ~hyd THEN Returned(t, hn, w.next_sibling, 0)
    ELSE IF is_text /\ nodeType(t, w.next_sibling) # TEXT_NODE THEN
        LET c == create_text(t) IN
        IF c.node = Null THEN Exhausted(t, hn)
        ELSE LET i == IF w.next_sibling = Null
                      THEN IF w.last_sibling = Undefined \/ w.last_sibling = Null
                           THEN [threw |-> "none", tree |-> c.tree]
                           ELSE after(c.tree, w.last_sibling, c.node)
                      ELSE before(c.tree, w.next_sibling, c.node) IN
             IF i.threw # "none" THEN Thrown(i.tree, hn, i.threw)
             ELSE Returned(i.tree, set_hydrate_node(c.node), c.node, 1)
    ELSE Returned(t, set_hydrate_node(w.next_sibling), w.next_sibling, 1)

\* ------------------------------------------------- initial live trees
\* Every ordered tree of at most MaxInitNodes nodes: node i > 1 hangs under
\* a node p[i] < i, children in handle order. The root is an element or a
\* document fragment; the other nodes are elements, text nodes (parsed
\* markup has no empty text node), and comments with or without data.
Labels == {<<"element", "">>, <<"text", "x">>, <<"comment", "">>, <<"comment", "x">>}
RootLabels == {<<"element", "">>, <<"fragment", "">>}

SortedSeq(S) ==
    [k \in 1..Cardinality(S) |-> CHOOSE j \in S : Cardinality({m \in S : m < j}) = k - 1]

MkTree(n, p, lab) ==
    [kind |-> [i \in Nodes |-> IF i <= n THEN lab[i][1] ELSE "free"],
     data |-> [i \in Nodes |-> IF i <= n THEN lab[i][2] ELSE ""],
     childNodes |-> [i \in Nodes |-> SortedSeq({j \in 2..n : p[j] = i})]]

InitTrees ==
    UNION {
        {MkTree(n, p, lab) :
            p \in {q \in [2..n -> 1..n] : \A i \in 2..n : q[i] < i},
            lab \in {l \in [1..n -> Labels \cup RootLabels] :
                        /\ l[1] \in RootLabels
                        /\ \A i \in 2..n : l[i] \in Labels}}
        : n \in 1..MaxInitNodes}

WellFormedInit(t) ==
    \A n \in Nodes : t.childNodes[n] # <<>> => t.kind[n] \in {"element", "fragment"}

NoCall == [op |-> "none"]

\* the environment after a successful init_operations() in a browser
EnvReady ==
    /\ dollar_window = "window"
    /\ dollar_document = "document"
    /\ is_firefox = "false"
    /\ first_child_getter = <<"Node", "firstChild">>
    /\ next_sibling_getter = <<"Node", "nextSibling">>
    /\ element_prototype = [s \in {"__click", "__className", "__attributes", "__style", "__e", "__svelte_meta"} |-> "absent"]
    /\ text_prototype = [s \in {"__t"} |-> "absent"]
    /\ host = [element_extensible |-> FALSE, text_extensible |-> FALSE, DEV |-> FALSE,
               array_warnings |-> FALSE]

DeferIdle ==
    /\ async_mode_flag = FALSE
    /\ active_effect = [ref |-> Null]

\* an element as create_element() returns it: no attributes
NoAttributes == attributes = <<>>

\* A hydration pass starts with the cursor on a node of the live tree;
\* outside hydration the cursor is not in use and holds null or a node.
Init ==
    /\ tree \in {t \in InitTrees : WellFormedInit(t)}
    /\ hydrating \in BOOLEAN
    /\ hydrate_node \in (IF hydrating THEN Live(tree) ELSE {Null, Root})
    /\ call = NoCall
    /\ trail = <<>>
    /\ EnvReady
    /\ DeferIdle
    /\ NoAttributes

WalkerCall(op, node, count, is_text, r) ==
    /\ ~r.oom
    /\ tree' = r.tree
    /\ hydrate_node' = r.hydrate_node
    /\ call' = [op |-> op, node |-> node, count |-> count, is_text |-> is_text,
                ret |-> r.ret, threw |-> r.threw, writes |-> r.writes,
                pre_tree |-> tree, pre_hydrate_node |-> hydrate_node]
    /\ trail' = IF op = "sibling" /\ hydrating /\ count = 1 /\ ~is_text /\ r.threw = "none"
                THEN Append(trail, r.ret) ELSE <<>>
    /\ UNCHANGED <<hydrating, env_vars, defer_vars, attr_vars>>

\* the node arguments of a call: any node outside hydration; in hydration
\* mode, where the walker does not read the argument, the node the cursor
\* is on (what compiled templates pass) or the root
NodeArgs ==
    IF hydrating THEN {Root} \cup ({hydrate_node} \ {Null}) ELSE Allocated(tree)

CallChild ==
    \E node \in NodeArgs, is_text \in BOOLEAN :
        WalkerCall("child", node, 0, is_text,
                   child(tree, hydrate_node, hydrating, node, is_text))

CallFirstChild ==
    \E fragment \in NodeArgs, is_text \in BOOLEAN :
        WalkerCall("first_child", fragment, 0, is_text,
                   first_child(tree, hydrate_node, hydrating, fragment, is_text))

CallSibling ==
    \E node \in NodeArgs, count \in 0..MaxCount, is_text \in BOOLEAN :
        WalkerCall("sibling", node, count, is_text,
                   sibling(tree, hydrate_node, hydrating, node, count, is_text))

Next == CallChild \/ CallFirstChild \/ CallSibling

Spec == Init /\ [][Next]_vars

\* ------------------------------------------------ environment binding
ElementSlots == {"__click", "__className", "__attributes", "__style", "__e", "__svelte_meta"}
TextSlots == {"__t"}

\* the module state init_operations() reads and writes, as one record
EnvState ==
    [dollar_window |-> dollar_window, dollar_document |-> dollar_document,
     is_firefox |-> is_firefox, first_child_getter |-> first_child_getter,
     next_sibling_getter |-> next_sibling_getter,
     element_prototype |-> element_prototype, text_prototype |-> text_prototype,
     host |-> host]

\* what the host's globals hold when init_operations() is called:
\* `window` and `document` ("absent": not declared, as on a server),
\* navigator.userAgent, and which Node.prototype supplies the firstChild
\* and nextSibling getters
HostGlobals ==
    [window : {"absent", "window1", "window2"},
     document : {"absent", "document1", "document2"},
     userAgent : {"Firefox", "Chrome"},
     nodePrototype : {"Node1", "Node2"}]

\* init_operations(): e is the module state at entry, g the host's globals.
\* The module is strict code: reading an undeclared global throws a
\* ReferenceError, adding a property to a non-extensible object a TypeError.
\* init_operations() without the `$window !== undefined` guard
init_operations_no_guard(e, g) ==
    IF g.window = "absent" THEN [env |-> e, threw |-> "ReferenceError", noop |-> FALSE]
    ELSE LET e1 == [e EXCEPT !.dollar_window = g.window] IN
    IF g.document = "absent" THEN [env |-> e1, threw |-> "ReferenceError", noop |-> FALSE]
    ELSE LET e2 == [e1 EXCEPT !.dollar_document = g.document,
                              !.is_firefox = IF g.userAgent = "Firefox" THEN "true" ELSE "false",
                              !.first_child_getter = <<g.nodePrototype, "firstChild">>,
                              !.next_sibling_getter = <<g.nodePrototype, "nextSibling">>]
             e3 == IF e2.host.element_extensible
                   THEN [e2 EXCEPT !.element_prototype =
                            [s \in ElementSlots |->
                                IF s \in {"__click", "__className", "__style", "__e"} THEN "undefined"
                                ELSE IF s = "__attributes" THEN "null"
                                ELSE @[s]]]
                   ELSE e2
             e4 == IF e3.host.text_extensible
                   THEN [e3 EXCEPT !.text_prototype = [s \in TextSlots |-> "undefined"]]
                   ELSE e3
         IN  IF ~e4.host.DEV THEN [env |-> e4, threw |-> "none", noop |-> FALSE]
             ELSE IF e4.element_prototype["__svelte_meta"] = "absent" /\ ~e4.host.element_extensible
                  THEN [env |-> e4, threw |-> "TypeError", noop |-> FALSE]
                  ELSE [env |-> [e4 EXCEPT !.element_prototype["__svelte_meta"] = "null",
                                           !.host.array_warnings = TRUE],
                        threw |-> "none", noop |-> FALSE]

init_operations(e, g) ==
    IF e.dollar_window # Unset THEN [env |-> e, threw |-> "none", noop |-> TRUE]
    ELSE IF g.window = "absent" THEN [env |-> e, threw |-> "ReferenceError", noop |-> FALSE]
    ELSE LET e1 == [e EXCEPT !.dollar_window = g.window] IN
    IF g.document = "absent" THEN [env |-> e1, threw |-> "ReferenceError", noop |-> FALSE]
    ELSE LET e2 == [e1 EXCEPT !.dollar_document = g.document,
                              !.is_firefox = IF g.userAgent = "Firefox" THEN "true" ELSE "false",
                              !.first_child_getter = <<g.nodePrototype, "firstChild">>,
                              !.next_sibling_getter = <<g.nodePrototype, "nextSibling">>]
             e3 == IF e2.host.element_extensible
                   THEN [e2 EXCEPT !.element_prototype =
                            [s \in ElementSlots |->
                                IF s \in {"__click", "__className", "__style", "__e"} THEN "undefined"
                                ELSE IF s = "__attributes" THEN "null"
                                ELSE @[s]]]
                   ELSE e2
             e4 == IF e3.host.text_extensible
                   THEN [e3 EXCEPT !.text_prototype = [s \in TextSlots |-> "undefined"]]
                   ELSE e3
         IN  IF ~e4.host.DEV THEN [env |-> e4, threw |-> "none", noop |-> FALSE]
             ELSE IF e4.element_prototype["__svelte_meta"] = "absent" /\ ~e4.host.element_extensible
                  THEN [env |-> e4, threw |-> "TypeError", noop |-> FALSE]
                  ELSE [env |-> [e4 EXCEPT !.element_prototype["__svelte_meta"] = "null",
                                           !.host.array_warnings = TRUE],
                        threw |-> "none", noop |-> FALSE]

\* before the first init_operations(): nothing cached, nothing reserved
InitEnv ==
    /\ tree = MkTree(1, <<>>, <<<<"element", "">>>>)
    /\ hydrating = FALSE
    /\ hydrate_node = Null
    /\ call = NoCall
    /\ trail = <<>>
    /\ dollar_window = Unset
    /\ dollar_document = Unset
    /\ is_firefox = Unset
    /\ first_child_getter = <<Unset, "firstChild">>
    /\ next_sibling_getter = <<Unset, "nextSibling">>
    /\ element_prototype = [s \in ElementSlots |-> "absent"]
    /\ text_prototype = [s \in TextSlots |-> "absent"]
    /\ host \in [element_extensible : BOOLEAN, text_extensible : BOOLEAN, DEV : BOOLEAN,
                 array_warnings : {FALSE}]
    /\ DeferIdle
    /\ NoAttributes

CallInitOperations ==
    \E g \in HostGlobals :
        LET r == init_operations(EnvState, g) IN
        /\ dollar_window' = r.env.dollar_window
        /\ dollar_document' = r.env.dollar_document
        /\ is_firefox' = r.env.is_firefox
        /\ first_child_getter' = r.env.first_child_getter
        /\ next_sibling_getter' = r.env.next_sibling_getter
        /\ element_prototype' = r.env.element_prototype
        /\ text_prototype' = r.env.text_prototype
        /\ host' = r.env.host
        /\ call' = [op |-> "init_operations", globals |-> g, threw |-> r.threw,
                    noop |-> r.noop, pre_env |-> EnvState]
        /\ UNCHANGED <<walker_vars, defer_vars, attr_vars>>

NextEnv == CallInitOperations

SpecEnv == InitEnv /\ [][NextEnv]_vars

\* ---------------------------------------------- deferred-append policy
\* a & b on non-negative integers below 2^31
RECURSIVE BitAnd(_, _)
BitAnd(a, b) ==
    IF a = 0 \/ b = 0 THEN 0
    ELSE (a % 2) * (b % 2) + 2 * BitAnd(a \div 2, b \div 2)

\* should_defer_append() testing for any flag instead of EFFECT_RAN
should_defer_append_any_flag(amf, effect) ==
    IF ~amf THEN [threw |-> "none", ret |-> FALSE]
    ELSE IF effect.ref = Null THEN [threw |-> "TypeError", ret |-> Undefined]
    ELSE [threw |-> "none", ret |-> effect.f # 0]

should_defer_append(amf, effect) ==
    IF ~amf THEN [threw |-> "none", ret |-> FALSE]
    ELSE IF effect.ref = Null THEN [threw |-> "TypeError", ret |-> Undefined]
    ELSE [threw |-> "none", ret |-> BitAnd(effect.f, EFFECT_RAN) # 0]

\* flag sets an effect can carry: any combination of the bits around EFFECT_RAN
FlagBits == {b \in 0..MaxFlagBit : 2^b * 16 >= EFFECT_RAN}

RECURSIVE SumBits(_)
SumBits(B) == IF B = {} THEN 0 ELSE LET b == CHOOSE x \in B : TRUE IN 2^b + SumBits(B \ {b})

FlagValues == {SumBits(B) : B \in SUBSET FlagBits}

InitDefer ==
    /\ tree = MkTree(1, <<>>, <<<<"element", "">>>>)
    /\ hydrating = FALSE
    /\ hydrate_node = Null
    /\ call = NoCall
    /\ trail = <<>>
    /\ EnvReady
    /\ async_mode_flag \in BOOLEAN
    /\ active_effect \in {[ref |-> Null]} \cup [ref : {1}, f : FlagValues]
    /\ NoAttributes

CallShouldDeferAppend ==
    LET r == should_defer_append(async_mode_flag, active_effect) IN
    /\ call' = [op |-> "should_defer_append", ret |-> r.ret, threw |-> r.threw]
    /\ UNCHANGED <<walker_vars, env_vars, defer_vars, attr_vars>>

NextDefer == CallShouldDeferAppend

SpecDefer == InitDefer /\ [][NextDefer]_vars

\* ------------------------------------------------------- node factory
\* Attribute names are sequences of characters, so that the prefix test
\* and the split at the colon are computed.
XlinkPrefix == <<"x", "l", "i", "n", "k", ":">>
XLINK_NS == "http://www.w3.org/1999/xlink"

\* the keys set_attribute() is called with: valid attribute names
AttrKeys ==
    {<<"x", "l", "i", "n", "k", ":", "h", "r", "e", "f">>,
     <<"h", "r", "e", "f">>,
     <<"x", "l", "i", "n", "k">>,
     <<"a", "x", "l", "i", "n", "k", ":", "b">>}

\* the value argument: omitted (undefined), empty or not
AttrValues == {Unset, "", "v"}

\* String.prototype.startsWith
startsWith(str, prefix) ==
    /\ Len(str) >= Len(prefix)
    /\ SubSeq(str, 1, Len(prefix)) = prefix

\* Attr.name: the qualified name, prefix ":" localName
QualifiedName(a) ==
    IF a.prefix = <<>> THEN a.localName ELSE a.prefix \o <<":">> \o a.localName

\* the least index of a set of list indexes, 0 for the empty set
FirstIndex(I) ==
    IF I = {} THEN 0 ELSE CHOOSE i \in I : \A j \in I : i <= j

\* Element.setAttributeNS(namespace, qualifiedName, value): the name is
\* split at its colon; an attribute with that namespace and local name has
\* its value changed, otherwise a new attribute is appended
setAttributeNS(attrs, namespace, qualifiedName, value) ==
    LET colon == CHOOSE i \in 1..Len(qualifiedName) :
                    qualifiedName[i] = ":" /\ \A j \in 1..(i - 1) : qualifiedName[j] # ":"
        prefix == SubSeq(qualifiedName, 1, colon - 1)
        localName == SubSeq(qualifiedName, colon + 1, Len(qualifiedName))
        i == FirstIndex({k \in 1..Len(attrs) :
                            attrs[k].namespace = namespace /\ attrs[k].localName = localName})
    IN  IF i # 0 THEN [attrs EXCEPT ![i].value = value]
        ELSE Append(attrs, [namespace |-> namespace, prefix |-> prefix,
                            localName |-> localName, value |-> value])

\* Element.setAttribute(qualifiedName, value): the first attribute with
\* that qualified name has its value changed, otherwise a new attribute
\* without namespace or prefix is appended
setAttribute(attrs, qualifiedName, value) ==
    LET i == FirstIndex({k \in 1..Len(attrs) : QualifiedName(attrs[k]) = qualifiedName})
    IN  IF i # 0 THEN [attrs EXCEPT ![i].value = value]
        ELSE Append(attrs, [namespace |-> "null", prefix |-> <<>>,
                            localName |-> qualifiedName, value |-> value])

\* set_attribute() routing every key through setAttribute
set_attribute_always_plain(attrs, key, value) ==
    setAttribute(attrs, key, IF value = Unset THEN "" ELSE value)

set_attribute(attrs, key, value) ==
    LET v == IF value = Unset THEN "" ELSE value IN
    IF startsWith(key, XlinkPrefix)
    THEN setAttributeNS(attrs, XLINK_NS, key, v)
    ELSE setAttribute(attrs, key, v)

InitAttr ==
    /\ tree = MkTree(1, <<>>, <<<<"element", "">>>>)
    /\ hydrating = FALSE
    /\ hydrate_node = Null
    /\ call = NoCall
    /\ trail = <<>>
    /\ EnvReady
    /\ DeferIdle
    /\ NoAttributes

CallSetAttribute ==
    \E key \in AttrKeys, value \in AttrValues :
        /\ attributes' = set_attribute(attributes, key, value)
        /\ call' = [op |-> "set_attribute", key |-> key, value |-> value,
                    threw |-> "none", pre_attributes |-> attributes]
        /\ UNCHANGED <<walker_vars, env_vars, defer_vars>>

NextAttr == CallSetAttribute

SpecAttr == InitAttr /\ [][NextAttr]_vars

\* =========================================================== properties
WalkerOps == {"child", "first_child", "sibling"}

\* the call recorded in `call` is a tree walker call made in hydration mode
HydratingCall(op) == call.op = op /\ hydrating

\* the first child of n in tree t, Null when n has none
FirstOf(t, n) == IF t.childNodes[n] = <<>> THEN Null ELSE t.childNodes[n][1]

\* C1: in hydration mode, from a cursor on a node of the live tree, no
\* sequence of child, first_child and sibling (count >= 1) calls raises an
\* error.
C1_HydratingWalkNeverThrows ==
    (call.op \in WalkerOps /\ hydrating /\ (call.op = "sibling" => call.count >= 1))
        => call.threw = "none"

\* C2: outside hydration, every child, first_child and sibling call leaves
\* the live tree and the hydration cursor as they were at entry.
C2_NonHydratingReadOnly ==
    (call.op \in WalkerOps /\ ~hydrating)
        => /\ tree = call.pre_tree
           /\ hydrate_node = call.pre_hydrate_node

\* C2 witness: a non-hydrating sibling(node, 1, true) that returned a
\* non-text node, where a hydrating call would have repaired.
C2_Witness ==
    /\ call.op = "sibling" /\ ~hydrating
    /\ call.count = 1 /\ call.is_text /\ call.threw = "none"
    /\ call.ret # Null /\ tree.kind[call.ret] # "text"
    /\ hydrate_node # Null

\* C3: hydrating child() with is_text on a cursor whose first child C is
\* not a text node creates one empty text node T, makes it the first child
\* with C right after it, sets the cursor to T and returns T.
C3_ChildRepairsBeforeNonText ==
    (/\ HydratingCall("child") /\ call.is_text
     /\ call.pre_hydrate_node # Null
     /\ FirstOf(call.pre_tree, call.pre_hydrate_node) # Null
     /\ call.pre_tree.kind[FirstOf(call.pre_tree, call.pre_hydrate_node)] # "text")
        => LET P == call.pre_hydrate_node
               T == call.ret
           IN  /\ call.threw = "none"
               /\ T \in Nodes
               /\ call.pre_tree.kind[T] = "free"
               /\ tree.kind[T] = "text" /\ tree.data[T] = ""
               /\ Allocated(tree) = Allocated(call.pre_tree) \cup {T}
               /\ tree.childNodes[P] = <<T>> \o call.pre_tree.childNodes[P]
               /\ \A n \in Nodes \ {P} : tree.childNodes[n] = call.pre_tree.childNodes[n]
               /\ hydrate_node = T

C3_Witness ==
    /\ HydratingCall("child") /\ call.is_text /\ call.threw = "none"
    /\ call.pre_hydrate_node # Null
    /\ Len(call.pre_tree.childNodes[call.pre_hydrate_node]) = 1
    /\ call.pre_tree.kind[FirstOf(call.pre_tree, call.pre_hydrate_node)] = "comment"
    /\ Len(tree.childNodes[call.pre_hydrate_node]) = 2
    /\ tree.childNodes[call.pre_hydrate_node][1] = hydrate_node

\* the text node a child() call appended as the only child of its cursor
AppendedOnlyChild ==
    LET P == call.pre_hydrate_node
        T == call.ret
    IN  /\ call.threw = "none"
        /\ T \in Nodes
        /\ call.pre_tree.kind[T] = "free"
        /\ tree.kind[T] = "text" /\ tree.data[T] = ""
        /\ Allocated(tree) = Allocated(call.pre_tree) \cup {T}
        /\ tree.childNodes[P] = <<T>>
        /\ \A n \in Nodes \ {P} : tree.childNodes[n] = call.pre_tree.childNodes[n]
        /\ hydrate_node = T

Pos(t, P, x) ==
    IF x = Null THEN Len(t.childNodes[P]) + 1 ELSE IndexOf(t.childNodes[P], x)

HasFollowingSibling(t, n) ==
    /\ n # Null
    /\ Parent(t, n) # Null
    /\ IndexOf(t.childNodes[Parent(t, n)], n) < Len(t.childNodes[Parent(t, n)])

\* the k-th next sibling of n in tree t (n itself for k = 0), Null when
\* fewer than k siblings follow n
NthNext(t, n, k) ==
    LET P == Parent(t, n) IN
    IF k = 0 THEN n
    ELSE IF P = Null THEN Null
    ELSE LET i == IndexOf(t.childNodes[P], n) + k IN
         IF i <= Len(t.childNodes[P]) THEN t.childNodes[P][i] ELSE Null

NoDup(s) == \A i, j \in 1..Len(s) : i # j => s[i] # s[j]

IsSiblingOne(c) == c.op = "sibling" /\ c.count = 1 /\ ~c.is_text

\* two consecutive hydrating sibling(_, 1, false) calls: both return, at two
\* distinct positions, the second after the first and both after the
\* cursor the first call started from
TwoIncreasingPositions ==
    /\ call.threw = "none" /\ call'.threw = "none"
    /\ call.ret # call'.ret
    /\ LET t == call.pre_tree
           S == call.pre_hydrate_node
           P == Parent(t, S)
       IN  /\ P # Null
           /\ call.ret # Null
           /\ call'.ret # Null => InSeq(call'.ret, t.childNodes[P])
           /\ InSeq(call.ret, t.childNodes[P])
           /\ Pos(t, P, S) < Pos(t, P, call.ret)
           /\ Pos(t, P, call.ret) < Pos(t, P, call'.ret)

\* C5 as stated: in hydration mode two consecutive sibling(node, 1, false)
\* calls from any starting cursor return two distinct, increasing
\* positions after the starting cursor, and no run of such calls returns a
\* node twice.
C5_Original ==
    [][/\ (hydrating /\ IsSiblingOne(call) /\ IsSiblingOne(call'))
            => TwoIncreasingPositions
       /\ NoDup(trail')]_vars

\* C5 amended: the same from any starting cursor that has at least one
\* following sibling (the second position may then be the null position
\* past the last sibling).
C5_SiblingVisitsIncreasingPositions ==
    [][/\ (/\ hydrating /\ IsSiblingOne(call) /\ IsSiblingOne(call')
           /\ HasFollowingSibling(call.pre_tree, call.pre_hydrate_node))
            => TwoIncreasingPositions
       /\ NoDup(trail')]_vars

\* C5 witness: two consecutive calls that returned two nodes
C5_Witness ==
    /\ hydrating /\ IsSiblingOne(call)
    /\ Len(trail) = 2 /\ trail[1] # Null /\ trail[2] # Null
    /\ hydrate_node = trail[2]

\* C6: with the cursor on the node argument at entry and a target that
\* already satisfies the expectation, hydrating child() and sibling()
\* return the node the non-hydrating call returns on the same tree.
C6_ModesAgreeOnReturnedNode ==
    /\ (/\ HydratingCall("child")
        /\ call.pre_hydrate_node = call.node
        /\ FirstOf(call.pre_tree, call.node) # Null
        /\ call.is_text => call.pre_tree.kind[FirstOf(call.pre_tree, call.node)] = "text")
         => /\ call.threw = "none"
            /\ call.ret = child(call.pre_tree, call.pre_hydrate_node, FALSE,
                                call.node, call.is_text).ret
    /\ (/\ HydratingCall("sibling")
        /\ call.pre_hydrate_node = call.node
        /\ NthNext(call.pre_tree, call.node, call.count) # Null
        /\ call.is_text =>
             call.pre_tree.kind[NthNext(call.pre_tree, call.node, call.count)] = "text")
         => /\ call.threw = "none"
            /\ call.ret = sibling(call.pre_tree, call.pre_hydrate_node, FALSE,
                                  call.node, call.count, call.is_text).ret

C6_Witness ==
    /\ HydratingCall("child") /\ call.is_text /\ call.threw = "none"
    /\ call.pre_hydrate_node = call.node
    /\ Len(call.pre_tree.childNodes[call.node]) = 2
    /\ call.ret = call.pre_tree.childNodes[call.node][1]
    /\ tree.kind[call.ret] = "text"
    /\ tree = call.pre_tree

\* C7: outside hydration sibling(node, count) returns the count-th next
\* sibling of node, or null when fewer than count siblings follow node.
C7_NonHydratingSiblingHops ==
    (call.op = "sibling" /\ ~hydrating)
        => /\ call.threw = "none"
           /\ call.ret = NthNext(call.pre_tree, call.node, call.count)

\* C8: outside hydration first_child(fragment) returns the next sibling of
\* the fragment's first child exactly when that child is a comment with
\* empty data, and the first child itself (null for an empty fragment)
\* otherwise.
C8_FirstChildSkipsPlaceholder ==
    (call.op = "first_child" /\ ~hydrating)
        => LET t == call.pre_tree
               first == FirstOf(t, call.node)
           IN  /\ call.threw = "none"
               /\ IF first # Null /\ t.kind[first] = "comment" /\ t.data[first] = ""
                  THEN /\ call.ret = NthNext(t, first, 1)
                       /\ call.ret # first
                  ELSE call.ret = first

\* C8 witness: a fragment whose empty leading comment was skipped for the
\* comment with data that follows it
C8_Witness ==
    /\ call.op = "first_child" /\ ~hydrating /\ call.threw = "none"
    /\ tree.kind[call.node] = "fragment"
    /\ Len(tree.childNodes[call.node]) = 2
    /\ tree.kind[tree.childNodes[call.node][1]] = "comment"
    /\ tree.data[tree.childNodes[call.node][1]] = ""
    /\ call.ret = tree.childNodes[call.node][2]
    /\ tree.kind[call.ret] = "comment" /\ tree.data[call.ret] = "x"
\* the EFFECT_RAN bit of a flag set, read off by division
HasEffectRan(f) == (f \div EFFECT_RAN) % 2 = 1

\* C9: should_defer_append() returns false whenever async mode is off,
\* whatever the active effect is; with async mode on it returns true
\* exactly when the active effect's flags have the EFFECT_RAN bit set,
\* whatever the other bits are.
C9_ShouldDeferAppend ==
    call.op = "should_defer_append"
        => /\ ~async_mode_flag => (call.threw = "none" /\ call.ret = FALSE)
           /\ (async_mode_flag /\ active_effect.ref # Null)
                => /\ call.threw = "none"
                   /\ call.ret = HasEffectRan(active_effect.f)

\* C9 witness: async mode on, an effect with the bits below and above
\* EFFECT_RAN set but not EFFECT_RAN itself, and the answer false
C9_Witness ==
    /\ call.op = "should_defer_append" /\ call.threw = "none"
    /\ async_mode_flag /\ active_effect.ref # Null
    /\ active_effect.f = EFFECT_RAN \div 2 + 2 * EFFECT_RAN
    /\ call.ret = FALSE

\* every step of init_operations() completed: the references and getters
\* are cached and, in a DEV build, the array warnings are installed
InitOperationsSucceeded ==
    /\ dollar_window # Unset
    /\ dollar_document # Unset
    /\ first_child_getter[1] # Unset
    /\ next_sibling_getter[1] # Unset
    /\ host.DEV => host.array_warnings

\* C10: once init_operations() has succeeded, every further call returns
\* without error and leaves $window, $document, is_firefox, the two cached
\* getters and the prototype slots as they are.
C10_InitOperationsIdempotent ==
    [][(InitOperationsSucceeded /\ call'.op = "init_operations")
        => /\ call'.threw = "none"
           /\ call'.noop
           /\ UNCHANGED env_vars]_vars

\* C10 witness: a repeated call on a host whose globals have all changed
\* since the successful call
C10_Witness ==
    /\ call.op = "init_operations" /\ call.noop
    /\ InitOperationsSucceeded
    /\ call.globals.window \notin {"absent", dollar_window}
    /\ call.globals.document \notin {"absent", dollar_document}
    /\ call.globals.nodePrototype # first_child_getter[1]
    /\ (call.globals.userAgent = "Firefox") # (is_firefox = "true")
    /\ host.element_extensible /\ element_prototype["__click"] = "undefined"
\* C11: init_operations() writes a slot to a prototype, the DEV metadata
\* slot included, only when that prototype is extensible; on a host that
\* forbids extension the write is skipped and the call completes without
\* error.
C11_ReservationsGuarded ==
    (call.op = "init_operations" /\ ~call.noop /\ call.globals.window # "absent"
        /\ call.globals.document # "absent")
        => /\ call.threw = "none"
           /\ ~host.element_extensible => element_prototype = call.pre_env.element_prototype
           /\ ~host.text_extensible => text_prototype = call.pre_env.text_prototype
\* the attributes of a list that carry the qualified name `name`
Named(attrs, name) == {i \in 1..Len(attrs) : QualifiedName(attrs[i]) = name}

\* the key begins with the six characters x l i n k :
HasXlinkPrefix(key) ==
    /\ Len(key) >= 6
    /\ key[1] = "x" /\ key[2] = "l" /\ key[3] = "i"
    /\ key[4] = "n" /\ key[5] = "k" /\ key[6] = ":"

\* C12: set_attribute(element, key, value) leaves exactly one attribute
\* named key, holding value ('' when omitted), in the XLink namespace
\* exactly when key starts with 'xlink:' and without namespace otherwise;
\* the other attributes are as before.
C12_SetAttributeNamespace ==
    call.op = "set_attribute"
        => LET pre == call.pre_attributes
               v == IF call.value = Unset THEN "" ELSE call.value
               at == Named(attributes, call.key)
           IN  /\ call.threw = "none"
               /\ Cardinality(at) = 1
               /\ \A i \in at :
                    /\ attributes[i].value = v
                    /\ attributes[i].namespace =
                         (IF HasXlinkPrefix(call.key) THEN XLINK_NS ELSE "null")
               /\ \A i \in 1..Len(pre) :
                    QualifiedName(pre[i]) # call.key => attributes[i] = pre[i]
               /\ Len(attributes) = Len(pre) + (IF Named(pre, call.key) = {} THEN 1 ELSE 0)

\* C12 witness: xlink:href set without a value on an element that already
\* carries a plain href
C12_Witness ==
    /\ call.op = "set_attribute" /\ call.value = Unset
    /\ call.key = XlinkPrefix \o <<"h", "r", "e", "f">>
    /\ Len(attributes) = 2
    /\ attributes[1] = [namespace |-> "null", prefix |-> <<>>,
                        localName |-> <<"h", "r", "e", "f">>, value |-> "v"]
    /\ attributes[2] = [namespace |-> XLINK_NS, prefix |-> <<"x", "l", "i", "n", "k">>,
                        localName |-> <<"h", "r", "e", "f">>, value |-> ""]
\* n is a text node created by the recorded call: empty, and a free handle
\* at entry
NewEmptyText(n) ==
    /\ n \in Nodes
    /\ call.pre_tree.kind[n] = "free"
    /\ tree.kind[n] = "text" /\ tree.data[n] = ""

\* a sequence without the element x
Without(seq, x) == SelectSeq(seq, LAMBDA y : y # x)

\* the live tree is the tree at entry with the one node T spliced in
OnlyAdded(T) ==
    /\ Allocated(tree) = Allocated(call.pre_tree) \cup {T}
    /\ \A n \in Nodes : Without(tree.childNodes[n], T) = call.pre_tree.childNodes[n]
    /\ \A n \in Allocated(call.pre_tree) :
         tree.kind[n] = call.pre_tree.kind[n] /\ tree.data[n] = call.pre_tree.data[n]

\* C13: hydrating sibling(node, count, true) whose landing position, count
\* hops after the cursor, is not a text node creates one empty text node T,
\* puts it right before the landing node, or as the last sibling after the
\* last sibling reached when the landing position is null, sets the cursor
\* to T and returns T.
C13_SiblingRepairsAtLanding ==
    (/\ HydratingCall("sibling") /\ call.is_text
     /\ call.pre_hydrate_node # Null
     /\ LET L == NthNext(call.pre_tree, call.pre_hydrate_node, call.count)
        IN  L = Null \/ call.pre_tree.kind[L] # "text")
        => LET pre == call.pre_tree
               S == call.pre_hydrate_node
               L == NthNext(pre, S, call.count)
               T == call.ret
               P == Parent(tree, T)
           IN  /\ call.threw = "none"
               /\ NewEmptyText(T)
               /\ OnlyAdded(T)
               /\ P # Null
               /\ P = Parent(pre, S)
               /\ IF L # Null
                  THEN NthNext(tree, T, 1) = L
                  ELSE /\ tree.childNodes[P][Len(tree.childNodes[P])] = T
                       /\ Len(tree.childNodes[P]) >= 2
               /\ hydrate_node = T

\* C14: hydrating first_child(fragment, is_text) with is_text set and a
\* cursor node that is not a text node creates one empty text node, puts it
\* right before the cursor node (as the first content when the cursor is
\* the fragment root), sets the cursor to it and returns it; otherwise it
\* returns the cursor node and changes neither cursor nor tree.
C14_FirstChildRepairsBeforeCursor ==
    (HydratingCall("first_child") /\ call.pre_hydrate_node # Null)
        => LET pre == call.pre_tree
               S == call.pre_hydrate_node
               T == call.ret
           IN  IF call.is_text /\ pre.kind[S] # "text"
               THEN /\ call.threw = "none"
                    /\ NewEmptyText(T)
                    /\ OnlyAdded(T)
                    /\ IF pre.kind[S] = "fragment"
                       THEN tree.childNodes[S] = <<T>> \o pre.childNodes[S]
                       ELSE /\ Parent(tree, T) # Null
                            /\ NthNext(tree, T, 1) = S
                    /\ hydrate_node = T
               ELSE /\ call.threw = "none"
                    /\ call.ret = S
                    /\ hydrate_node = S
                    /\ tree = pre

\* C15: after every hydrating child, first_child or sibling call that
\* returns, the cursor is the node the call returned (null included).
C15_CursorIsReturnedNode ==
    (call.op \in WalkerOps /\ hydrating /\ call.threw = "none")
        => hydrate_node = call.ret

\* C15 witness: sibling ran off the end without is_text: null returned,
\* null cursor
C15_Witness ==
    /\ HydratingCall("sibling") /\ ~call.is_text /\ call.threw = "none"
    /\ call.count = 2
    /\ call.pre_hydrate_node # Null
    /\ call.ret = Null /\ hydrate_node = Null

\* C16: in hydration mode the cursor is always null or a node attached to
\* the live tree; a synthesized text node is never left detached.
C16_CursorAttachedOrNull ==
    hydrating => (hydrate_node = Null \/ hydrate_node \in Live(tree))
\* the target position of the recorded call already holds a node that
\* satisfies the expectation
TargetSatisfied ==
    LET pre == call.pre_tree
        S == call.pre_hydrate_node
        target == IF S = Null THEN Null
                  ELSE IF call.op = "child" THEN FirstOf(pre, S)
                  ELSE IF call.op = "first_child" THEN S
                  ELSE NthNext(pre, S, call.count)
    IN  /\ target # Null
        /\ call.is_text => pre.kind[target] = "text"

\* C17: a hydrating child, first_child or sibling call inserts at most one
\* node into the live tree, a newly created empty text node; it removes,
\* re-parents or reorders no node that was there, and leaves the tree as it
\* was when the target position already satisfied the expectation.
C17_RepairOnlyAddsOneText ==
    (call.op \in WalkerOps /\ hydrating)
        => LET pre == call.pre_tree
               added == Live(tree) \ Live(pre)
           IN  /\ Cardinality(added) <= 1
               /\ \A n \in added : NewEmptyText(n)
               /\ Live(pre) \subseteq Live(tree)
               /\ \A n \in Allocated(pre) :
                    /\ tree.kind[n] = pre.kind[n]
                    /\ tree.data[n] = pre.data[n]
                    /\ SelectSeq(tree.childNodes[n], LAMBDA y : y \notin added)
                         = pre.childNodes[n]
               /\ TargetSatisfied => tree = pre

\* C17 witness: a text node spliced in between two nodes that were there
C17_Witness ==
    /\ HydratingCall("sibling") /\ call.is_text /\ call.threw = "none"
    /\ Live(tree) = Live(call.pre_tree) \cup {call.ret}
    /\ call.ret \notin Live(call.pre_tree)
    /\ LET P == Parent(tree, call.ret) IN
         /\ Len(tree.childNodes[P]) = 3
         /\ tree.childNodes[P][2] = call.ret

\* the recorded hydrating call repaired by inserting its text node right
\* before the existing node X
RepairedBefore(X) ==
    /\ call.op \in WalkerOps /\ hydrating /\ call.threw = "none"
    /\ NewEmptyText(call.ret)
    /\ X # Null
    /\ Parent(tree, call.ret) # Null
    /\ NthNext(tree, call.ret, 1) = X

\* C18: when a hydrating call repaired by inserting a text node before an
\* existing node X, the next hydrating sibling(_, 1, false) returns X and
\* sets the cursor to X.
C18_RepairDoesNotSkipNode ==
    [][\A X \in Nodes :
         (RepairedBefore(X) /\ IsSiblingOne(call'))
            => /\ call'.threw = "none"
               /\ call'.ret = X
               /\ hydrate_node' = X
               /\ tree' = tree]_vars

\* C18 witness: child() repaired before a comment, and the following
\* sibling(_, 1, false) handed that comment out
C18_Witness ==
    /\ hydrating /\ IsSiblingOne(call) /\ call.threw = "none"
    /\ call.ret # Null /\ tree.kind[call.ret] = "comment"
    /\ call.pre_hydrate_node # Null
    /\ tree.kind[call.pre_hydrate_node] = "text" /\ tree.data[call.pre_hydrate_node] = ""
    /\ NthNext(tree, call.pre_hydrate_node, 1) = call.ret
    /\ hydrate_node = call.ret

\* what the recorded call left behind equals the outcome r
SameOutcome(r) ==
    /\ ~r.oom
    /\ r.tree = tree
    /\ r.hydrate_node = hydrate_node
    /\ r.ret = call.ret
    /\ r.threw = call.threw

\* C19: in hydration mode the node argument has no influence: sibling and
\* child, run on the same tree and cursor with the same count and is_text
\* but any other node argument, return the same node and leave the same
\* cursor and tree.
C19_NodeArgumentIgnored ==
    /\ HydratingCall("sibling") =>
         \A other \in Allocated(call.pre_tree) :
            SameOutcome(sibling(call.pre_tree, call.pre_hydrate_node, TRUE, other,
                                call.count, call.is_text))
    /\ HydratingCall("child") =>
         \A other \in Allocated(call.pre_tree) :
            SameOutcome(child(call.pre_tree, call.pre_hydrate_node, TRUE, other,
                              call.is_text))

\* C19 witness: a hydrating child() called with the root while the cursor
\* was on another node with a child
C19_Witness ==
    /\ HydratingCall("child") /\ call.threw = "none"
    /\ call.node = Root
    /\ call.pre_hydrate_node \notin {Null, Root}
    /\ call.pre_tree.childNodes[call.pre_hydrate_node] # <<>>
    /\ call.ret = FirstOf(call.pre_tree, call.pre_hydrate_node)
    /\ call.ret # FirstOf(call.pre_tree, Root)

====
